---- MODULE Spec2Model ----
(***************************************************************************)
(* State-machine model of the SOC report viewer:                           *)
(*   src/my-soc-report-app/src/components/ReportViewer.tsx                 *)
(*   src/my-soc-report-app/src/components/ui/accordion.tsx                 *)
(*                                                                         *)
(* The viewer holds two pieces of React state (reports, index); each of    *)
(* the ten AccordionItem instances holds one (open).  Every event handler  *)
(* is one action; the re-render React performs after a state update (the   *)
(* effect's dependency check, the reconciliation of the AccordionItem      *)
(* instances) is part of that action.                                      *)
(*                                                                         *)
(* index is 0-based as in the source; the TLA+ sequence reports is 1-based,*)
(* so reports[index] of the source is reports[index + 1] here.             *)
(***************************************************************************)
EXTENDS Integers, Sequences, FiniteSets

VARIABLES
    mounted,     \* ReportViewer has been mounted (first render + effect done)
    reports,     \* useState<any[]>([])   ReportViewer.tsx:6
    index,       \* useState(0)           ReportViewer.tsx:7
    open,        \* useState(false) of each AccordionItem  accordion.tsx:10
    fetchCount,  \* number of fetch("/soc_report.json") calls issued
    inflight,    \* fetch promises neither fulfilled nor rejected yet
    failed,      \* number of console.error("Failed to load JSON:") calls
    last,        \* history: the last event, with the state it was handled in
    before       \* history: the event before the last one

vars == <<mounted, reports, index, open, fetchCount, inflight, failed,
          last, before>>

----------------------------------------------------------------------------
(* Bounds *)

MaxReports == 3     \* longest array the fetch returns
MaxFetch == 3       \* cap on the number of fetches issued
NumSections == 4    \* how many of the AccordionItem instances are modelled

----------------------------------------------------------------------------
(* Data *)

FileNames == {"A.pdf", "B.pdf"}

\* a report record; only the field the title is read from is distinguished
Records == [file_name : FileNames]

\* the JSON arrays the resource can hold (the empty array included)
Datasets == UNION {[1..n -> Records] : n \in 0..MaxReports}

\* the value prop of the AccordionItem instances the viewer renders, in
\* document order
SectionValues == <<"AuditorsOpinion", "ThirdPartyServiceProvider",
                   "subservice", "services", "control-numbers",
                   "control-objectives", "control-descriptions",
                   "reports-inscope", "control-exception", "cuecs">>

\* the instances modelled: the first NumSections of them (the instances run
\* the same code and share no state)
Sections == {SectionValues[k] : k \in 1..NumSections}

EventKinds == {"none", "mount", "load", "fail", "prev", "next", "toggle"}

Max(a, b) == IF a >= b THEN a ELSE b
Min(a, b) == IF a <= b THEN a ELSE b

----------------------------------------------------------------------------
(* ReportViewer: initial state, effect, render *)

InitialReports == <<>>

InitialIndex_one == 0 + 1
InitialIndex == 0

InitialOpen == FALSE

\* dependency array of the effect: [] (never changes between renders)
EffectDeps_index(i) == <<i>>
EffectDeps(i) == <<>>

\* const report = reports[index]; if (!report) return <p>Loading...</p>
\* (an out-of-range subscript yields undefined in the source)
HasReport(rs, i) == i >= 0 /\ i < Len(rs)
IsLoading(rs, i) == ~HasReport(rs, i)

Loading == ~mounted \/ IsLoading(reports, index)
report == reports[index + 1]
\* <h1>{report.file_name}</h1>
Title == report.file_name

\* disabled={index === 0}
PrevDisabled == index = 0

\* disabled={index === reports.length - 1}
NextDisabled == index = Len(reports) - 1

\* setIndex((prev) => Math.max(prev - 1, 0))
handlePrev_noclamp(prev) == prev - 1
handlePrev(prev) == Max(prev - 1, 0)

\* setIndex((prev) => Math.min(prev + 1, reports.length - 1))
handleNext_noclamp(prev, rs) == prev + 1
handleNext_max(prev, rs) == Max(prev + 1, Len(rs) - 1)
handleNext(prev, rs) == Min(prev + 1, Len(rs) - 1)

\* .catch((err) => console.error(...)): the state is left alone
OnRejected_fallback(rs) == <<[file_name |-> "A.pdf"]>>
OnRejected(rs) == rs

----------------------------------------------------------------------------
(* accordion.tsx *)

AllClosed == [s \in Sections |-> InitialOpen]

\* setOpen((prev) => !prev)
toggle_set(prev) == TRUE
toggle(prev) == ~prev

\* each AccordionItem owns its flag; Accordion itself keeps no state, so
\* a trigger updates the flag of its own item only
AfterToggle_single(o, s) ==
    [t \in Sections |-> IF t = s THEN toggle(o[t]) ELSE FALSE]
AfterToggle_shared(o, s) == [t \in Sections |-> toggle(o[s])]
AfterToggle(o, s) == [o EXCEPT ![s] = toggle(o[s])]

\* context.open ? <div>{children}</div> : null
ContentRendered(s) == ~Loading /\ open[s]

\* The AccordionItem elements carry no key that depends on index, so an
\* instance that is rendered before and after an update keeps its state;
\* an instance that is not rendered is unmounted and starts from
\* useState(false) when it mounts again.
Reconcile_keyed(was, now, oldIdx, newIdx, o) ==
    IF was /\ now /\ oldIdx = newIdx THEN o ELSE AllClosed
Reconcile(was, now, oldIdx, newIdx, o) ==
    IF was /\ now THEN o ELSE AllClosed

----------------------------------------------------------------------------
(* History: an event with the state it was handled in *)

NoSection == "none"
NoEvent == [ev |-> "none", sec |-> NoSection, idx |-> InitialIndex,
            rs |-> InitialReports, opn |-> AllClosed, shown |-> FALSE]

\* the event of kind e (on section s, for a toggle) handled in this state
Event(e, s) == [ev |-> e, sec |-> s, idx |-> index, rs |-> reports,
                opn |-> open,
                shown |-> IF s \in Sections THEN ContentRendered(s) ELSE FALSE]

Record(e, s) == last' = Event(e, s) /\ before' = last

----------------------------------------------------------------------------
(* The re-render that follows a state update *)

\* rs, i, o: the updated reports, index and flags; settled: fetches that
\* completed in this step
Render(rs, i, o, settled) ==
    LET rerun == EffectDeps(i) # EffectDeps(index) /\ fetchCount < MaxFetch
    IN /\ reports' = rs
       /\ index' = i
       /\ open' = Reconcile(~Loading, ~IsLoading(rs, i), index, i, o)
       /\ fetchCount' = IF rerun THEN fetchCount + 1 ELSE fetchCount
       /\ inflight' = (inflight - settled) + (IF rerun THEN 1 ELSE 0)
       /\ mounted' = mounted

Init ==
    /\ mounted = FALSE
    /\ reports = InitialReports
    /\ index = InitialIndex
    /\ open = AllClosed
    /\ fetchCount = 0
    /\ inflight = 0
    /\ failed = 0
    /\ last = NoEvent
    /\ before = NoEvent

\* first render; useEffect(() => { fetch("/soc_report.json")... }, [])
Mount ==
    /\ ~mounted
    /\ mounted' = TRUE
    /\ fetchCount' = fetchCount + 1
    /\ inflight' = inflight + 1
    /\ open' = AllClosed
    /\ Record("mount", NoSection)
    /\ UNCHANGED <<reports, index, failed>>

\* .then((res) => res.json()).then((data) => setReports(data))
FetchResolve(data) ==
    /\ mounted
    /\ inflight > 0
    /\ Render(data, index, open, 1)
    /\ Record("load", NoSection)
    /\ UNCHANGED failed

\* the fetch, or res.json(), rejects: .catch logs
FetchReject ==
    /\ mounted
    /\ inflight > 0
    /\ failed' = failed + 1
    /\ Render(OnRejected(reports), index, open, 1)
    /\ Record("fail", NoSection)

\* onClick={handlePrev}.  The handler exists once a report is rendered.
\* With the control disabled the browser delivers no click; the handler's
\* clamp gives the same result, so the handler is run in both cases.
ClickPrev ==
    /\ ~Loading
    /\ Render(reports, handlePrev(index), open, 0)
    /\ Record("prev", NoSection)
    /\ UNCHANGED failed

\* onClick={handleNext}
ClickNext ==
    /\ ~Loading
    /\ Render(reports, handleNext(index, reports), open, 0)
    /\ Record("next", NoSection)
    /\ UNCHANGED failed

\* <button onClick={toggle}> of the AccordionTrigger inside item s
ClickTrigger(s) ==
    /\ ~Loading
    /\ Render(reports, index, AfterToggle(open, s), 0)
    /\ Record("toggle", s)
    /\ UNCHANGED failed

Next ==
    \/ Mount
    \/ \E data \in Datasets : FetchResolve(data)
    \/ FetchReject
    \/ ClickPrev
    \/ ClickNext
    \/ \E s \in Sections : ClickTrigger(s)

Spec == Init /\ [][Next]_vars

\* fetches whose promise chain ran to setReports
Resolved == fetchCount - inflight - failed

TypeOK ==
    /\ mounted \in BOOLEAN
    /\ reports \in Datasets
    /\ index \in 0..MaxReports
    /\ open \in [Sections -> BOOLEAN]
    /\ fetchCount \in 0..MaxFetch
    /\ inflight \in 0..MaxFetch
    /\ failed \in 0..MaxFetch
    /\ last.ev \in EventKinds
    /\ before.ev \in EventKinds
    /\ Loading => open = AllClosed

----------------------------------------------------------------------------
(* Properties *)

NavEvents == {"prev", "next"}

\* C1: in every reachable state the current index is >= 0, and once a
\* non-empty array of length n is stored the index is <= n - 1, so that a
\* record (not the loading placeholder) is displayed.
C1_IndexInRange ==
    /\ index >= 0
    /\ Len(reports) >= 1 => index <= Len(reports) - 1 /\ ~Loading

\* Next was invoked at the last index of an array of two or more records
C1_Witness ==
    /\ last.ev = "next"
    /\ Len(reports) >= 2
    /\ last.idx = Len(reports) - 1
    /\ before.ev = "next"
    /\ before.idx = Len(reports) - 2

\* C2: Previous invoked at index 0 and Next invoked at index n - 1 leave
\* the index and the displayed record unchanged; while a record is shown
\* the Previous control is disabled exactly when index = 0 and the Next
\* control exactly when index = n - 1 (both, when n = 1).
C2_BoundaryNoOp ==
    /\ (last.ev = "prev" /\ last.idx = 0) =>
           index = 0 /\ reports = last.rs /\ ~Loading
    /\ (last.ev = "next" /\ last.idx = Len(last.rs) - 1) =>
           index = last.idx /\ reports = last.rs /\ ~Loading
    /\ ~Loading => /\ PrevDisabled <=> index = 0
                   /\ NextDisabled <=> index = Len(reports) - 1
                   /\ Len(reports) = 1 => PrevDisabled /\ NextDisabled

\* Previous was invoked at index 0 with more than one record loaded
C2_Witness ==
    /\ last.ev = "prev"
    /\ last.idx = 0
    /\ PrevDisabled
    /\ ~NextDisabled

\* C3 (as claimed): from every index i in range, Next followed by Previous
\* returns to index i.
C3_RoundTripEverywhere ==
    (last.ev = "prev" /\ before.ev = "next") => index = before.idx

\* C3 (amended): Next followed by Previous returns to index i, and shows the
\* title of record i, from every i < n - 1 and from i = 0 when n = 1; from
\* the last index of an array of two or more records Next changes nothing
\* and Previous then leaves the viewer at n - 2.
C3_RoundTrip ==
    (last.ev = "prev" /\ before.ev = "next") =>
        /\ ~Loading
        /\ IF before.idx < Len(reports) - 1 \/ Len(reports) = 1
           THEN /\ index = before.idx
                /\ Title = before.rs[before.idx + 1].file_name
           ELSE /\ before.idx = Len(reports) - 1
                /\ index = Len(reports) - 2

\* Next then Previous were performed from an index that is neither the
\* first nor the last
C3_Witness ==
    /\ last.ev = "prev"
    /\ before.ev = "next"
    /\ before.idx > 0
    /\ before.idx < Len(reports) - 1
    /\ index = before.idx

\* C4 (as claimed): after a Previous or Next that changes the index, every
\* section of the record now displayed is closed.
C4_ClosedAfterNavigation ==
    (last.ev \in NavEvents /\ index # last.idx) =>
        \A s \in Sections : ~open[s]

\* C4 (amended): a Previous or Next that changes the index does not remount
\* the sections: every section keeps the open/closed state it had for the
\* record displayed before, so a section that was open stays open.
C4_FlagsKeptAcrossRecords ==
    (last.ev \in NavEvents /\ index # last.idx) =>
        /\ open = last.opn
        /\ \A s \in Sections : ContentRendered(s) <=> last.opn[s]

\* the index changed while some section was open and another was closed
C4_Witness ==
    /\ last.ev \in NavEvents
    /\ index # last.idx
    /\ \E s, t \in Sections : last.opn[s] /\ ~last.opn[t]

\* C5: a section is closed when it mounts, and its flag differs from the
\* flag before the last event only if that event was the activation of the
\* section's own trigger.
C5_OnlyOwnTrigger ==
    /\ last.ev \in {"none", "mount", "load"} => \A s \in Sections : ~open[s]
    /\ \A s \in Sections :
           open[s] # last.opn[s] => last.ev = "toggle" /\ last.sec = s

\* a navigation and the toggle of another section left an open section open
C5_Witness ==
    /\ last.ev = "toggle"
    /\ before.ev \in NavEvents
    /\ before.idx # last.idx
    /\ \E s \in Sections : s # last.sec /\ before.opn[s] /\ open[s]

\* C6: one fetch is issued, at mount, and none after it; the stored array
\* is replaced by nothing but the completion of that fetch, which finds the
\* initial empty array.
C6_SingleFetch ==
    /\ fetchCount = (IF mounted THEN 1 ELSE 0)
    /\ inflight + failed + Resolved = fetchCount
    /\ inflight >= 0 /\ failed >= 0 /\ Resolved >= 0
    /\ last.ev # "load" => reports = last.rs
    /\ last.ev = "load" => last.rs = InitialReports /\ Resolved = 1

\* the index changed after the load completed, and no fetch was issued
C6_Witness ==
    /\ last.ev \in NavEvents
    /\ index # last.idx
    /\ before.ev = "toggle"
    /\ fetchCount = 1
    /\ inflight = 0

\* C7: once the fetch has failed the failure has been logged once, the
\* array is still empty, the loading placeholder is shown (no title, no
\* navigation control, no section content) and no fetch is issued again;
\* no event is possible any more.
C7_FailureLeavesLoading ==
    failed >= 1 =>
        /\ failed = 1
        /\ reports = InitialReports
        /\ Loading
        /\ \A s \in Sections : ~ContentRendered(s) /\ ~open[s]
        /\ fetchCount = 1
        /\ inflight = 0
        /\ last.ev = "fail"

\* the fetch issued at mount was rejected
C7_Witness ==
    /\ failed = 1
    /\ last.ev = "fail"
    /\ before.ev = "mount"

\* C8: content is rendered exactly for the open sections of a displayed
\* record; no content is rendered when the sections mount; one activation
\* of a trigger flips the section's flag, and two activations in a row
\* restore the flag and the rendering of the content.
C8_ToggleInvolution ==
    /\ \A s \in Sections : ContentRendered(s) <=> (HasReport(reports, index) /\ open[s])
    /\ last.ev = "load" => \A s \in Sections : ~ContentRendered(s)
    /\ last.ev = "toggle" =>
           /\ open[last.sec] = ~last.opn[last.sec]
           /\ ContentRendered(last.sec) = ~last.shown
    /\ (last.ev = "toggle" /\ before.ev = "toggle" /\ last.sec = before.sec) =>
           /\ open[last.sec] = before.opn[last.sec]
           /\ ContentRendered(last.sec) = before.shown

\* a closed section was opened and closed again
C8_Witness ==
    /\ last.ev = "toggle"
    /\ before.ev = "toggle"
    /\ last.sec = before.sec
    /\ ~before.shown
    /\ last.shown
    /\ ~ContentRendered(last.sec)

\* C9: the activation of one section's trigger flips that section's flag
\* and leaves the flag of every other section, the index and the array
\* as they were.
C9_SectionsIndependent ==
    last.ev = "toggle" =>
        /\ last.sec \in Sections
        /\ open[last.sec] = ~last.opn[last.sec]
        /\ \A t \in Sections \ {last.sec} : open[t] = last.opn[t]
        /\ index = last.idx
        /\ reports = last.rs

\* the last closed section was opened: all sections are open together
C9_Witness ==
    /\ last.ev = "toggle"
    /\ \A s \in Sections : open[s]
    /\ \E s \in Sections \ {last.sec} : last.opn[s]

\* C10: right after the load of a non-empty array the index is 0 and the
\* title is the first record's file_name; until a load has completed only
\* the loading placeholder is shown.
C10_FirstRecordAfterLoad ==
    /\ (last.ev = "load" /\ Len(reports) >= 1) =>
           /\ index = 0
           /\ ~Loading
           /\ Title = reports[1].file_name
    /\ Resolved = 0 => Loading /\ \A s \in Sections : ~ContentRendered(s)

\* an array of several records has just been loaded
C10_Witness ==
    /\ last.ev = "load"
    /\ Len(reports) >= 2
    /\ reports[1].file_name # reports[2].file_name
    /\ index = 0

====
